---------------------------- MODULE Spec2Model ----------------------------
(***************************************************************************)
(* A model of the metrics crates: the metric Key (metrics-core) and the    *)
(* PrometheusRecorder (metrics-recorder-prometheus), which appends counter *)
(* and gauge blocks to a text buffer, aggregates histogram values per key  *)
(* and renders everything to the Prometheus exposition format when it is   *)
(* converted into a String.                                                *)
(*                                                                         *)
(* Text is a sequence of one-character strings, so that replacing,         *)
(* joining and splitting are computed character by character.  A u64 is a  *)
(* tuple of four 16-bit limbs, least significant first, so that the sum    *)
(* kept per histogram has the width it has in the program.                 *)
(***************************************************************************)
EXTENDS Integers, Sequences, FiniteSets

VARIABLES
    recorders,        \* id -> the PrometheusRecorder value held under that id
    rendered,         \* id -> <<>> or <<text>>: the String the recorder was turned into
    panicked,         \* the thread has panicked (an expect() or an overflow check)
    overflow_checks,  \* build profile: arithmetic overflow panics (debug) or wraps
    config,           \* history: id -> the quantiles its recorder was configured with
    calls,            \* history: id -> the record_* calls made on that recorder
    finalizations,    \* history: id -> how many times the recorder was rendered
    last,             \* history: the operation that produced this state
    kcall,            \* the last Key operation applied and its result
    budget            \* the number of record_* calls the callers make in this run

vars == <<recorders, rendered, panicked, overflow_checks, config, calls,
          finalizations, last, kcall, budget>>

-----------------------------------------------------------------------------
(* Bounds of the model.                                                    *)

MaxRecorders == 2
MaxCalls == 3
MaxObs == 3
MaxBatch == 2
MaxMaps == 2

-----------------------------------------------------------------------------
(* Generic helpers.                                                        *)

Max(a, b) == IF a >= b THEN a ELSE b
Min(a, b) == IF a <= b THEN a ELSE b

RECURSIVE Flatten(_)
Flatten(ss) == IF ss = <<>> THEN <<>> ELSE Head(ss) \o Flatten(Tail(ss))

RECURSIVE Join(_, _)
\* [String]::join(sep)
Join(ss, sep) ==
    IF ss = <<>> THEN <<>>
    ELSE IF Len(ss) = 1 THEN ss[1]
    ELSE ss[1] \o sep \o Join(Tail(ss), sep)

\* The pieces of s between occurrences of character c: one more than there
\* are occurrences.
Split(s, c) ==
    LET at     == {i \in 1..Len(s) : s[i] = c}
        nth(k) == IF k = 0 THEN 0
                  ELSE IF k > Cardinality(at) THEN Len(s) + 1
                  ELSE CHOOSE i \in at : Cardinality({j \in at : j < i}) = k - 1
    IN  [k \in 1..(Cardinality(at) + 1) |-> SubSeq(s, nth(k - 1) + 1, nth(k) - 1)]

\* The lines of a text: its pieces between line feeds.
Lines(s) == Split(s, "\n")

Contains(s, c) == \E i \in 1..Len(s) : s[i] = c

IsPrefix(p, s) == Len(p) <= Len(s) /\ SubSeq(s, 1, Len(p)) = p

\* s without its first n characters.
Drop(s, n) == SubSeq(s, n + 1, Len(s))

\* The index of the first c in s, or Len(s) + 1.
IndexOf(s, c) ==
    IF Contains(s, c) THEN CHOOSE i \in 1..Len(s) : s[i] = c /\ \A j \in 1..(i-1) : s[j] # c
    ELSE Len(s) + 1

Range(f) == {f[i] : i \in DOMAIN f}

\* All orderings of a finite set, as sequences without repetition.
Perms(S) == {p \in [1..Cardinality(S) -> S] : \A i, j \in DOMAIN p : p[i] = p[j] => i = j}

\* Sequences over S of length at most n.
SeqsUpTo(S, n) == UNION {[1..m -> S] : m \in 0..n}

-----------------------------------------------------------------------------
(* Unsigned 64-bit integers.                                               *)

LimbBase == 2^16
NLimbs == 64 \div 16

U64Zero == <<0, 0, 0, 0>>
U64Max == <<LimbBase - 1, LimbBase - 1, LimbBase - 1, LimbBase - 1>>

\* The u64 of a natural number below 2^31.
U64Of(n) == <<n % LimbBase, n \div LimbBase, 0, 0>>

\* 2^63
U64Pow63 == <<0, 0, 0, 2^15>>

RECURSIVE AddLimbs(_, _, _, _)
\* Limbs i.. of a + b given carry c into limb i; the carry out is the last element.
AddLimbs(a, b, i, c) ==
    IF i > Len(a) THEN <<c>>
    ELSE LET t == a[i] + b[i] + c
         IN  <<t % LimbBase>> \o AddLimbs(a, b, i + 1, t \div LimbBase)

\* a + b without reduction: as many limbs as a, then the carry out.
WideAdd(a, b) == AddLimbs(a, b, 1, 0)

\* u64 addition: the sum modulo 2^64 and whether it overflowed.
U64Add(a, b) ==
    LET w == WideAdd(a, b)
    IN  [val |-> SubSeq(w, 1, NLimbs), overflow |-> w[NLimbs + 1] # 0]

RECURSIVE LimbsLess(_, _, _)
LimbsLess(a, b, i) ==
    IF i = 0 THEN FALSE
    ELSE IF a[i] # b[i] THEN a[i] < b[i]
    ELSE LimbsLess(a, b, i - 1)

\* a < b for two limb tuples of the same length.
U64Less(a, b) == LimbsLess(a, b, Len(a))

U64LessEq(a, b) == a = b \/ U64Less(a, b)

RECURSIVE DivLimbs(_, _, _, _)
\* Long division of limbs i..1 of a by the small number d with incoming
\* remainder r: [q |-> quotient limbs i..1, least significant first, r |-> remainder].
DivLimbs(a, d, i, r) ==
    IF i = 0 THEN [q |-> <<>>, r |-> r]
    ELSE LET cur  == r * LimbBase + a[i]
             rest == DivLimbs(a, d, i - 1, cur % d)
         IN  [q |-> Append(rest.q, cur \div d), r |-> rest.r]

IsZeroLimbs(a) == \A i \in DOMAIN a : a[i] = 0

Digit(d) == <<"0", "1", "2", "3", "4", "5", "6", "7", "8", "9">>[d + 1]

RECURSIVE DecLimbs(_)
\* The decimal digits of a limb tuple (u64::to_string for four limbs).
DecLimbs(a) ==
    LET d == DivLimbs(a, 10, Len(a), 0)
    IN  IF IsZeroLimbs(d.q) THEN <<Digit(d.r)>>
        ELSE Append(DecLimbs(d.q), Digit(d.r))

RECURSIVE DecNat(_)
\* The decimal digits of a natural number.
DecNat(n) == IF n < 10 THEN <<Digit(n)>> ELSE Append(DecNat(n \div 10), Digit(n % 10))

\* i64::to_string
DecInt(n) == IF n < 0 THEN <<"-">> \o DecNat(-n) ELSE DecNat(n)

-----------------------------------------------------------------------------
(* Option<T>: None is the empty tuple, Some(x) the one-element tuple.      *)

None == <<>>
Some(x) == <<x>>
IsSome(o) == o # <<>>
Unwrap(o) == o[1]
UnwrapOr(o, d) == IF IsSome(o) THEN o[1] ELSE d

-----------------------------------------------------------------------------
(* metrics-core: Label and Key.                                            *)

\* Label::from_parts: the tuple struct Label(key, value).
Label(k, v) == <<k, v>>

\* Key::from_name
from_name(name) == [name |-> name, labels |-> None]

\* Key::from_name_and_labels
from_name_and_labels(name, labels) == [name |-> name, labels |-> Some(labels)]

\* Key::name
name_of(key) == key.name

\* Key::labels: an iterator over the labels if they exist.
labels_of(key) == key.labels

\* #[derive(PartialEq)] for Label: both fields.
LabelEq(a, b) == a[1] = b[1] /\ a[2] = b[2]

\* Vec<Label> equality: same length, equal element by element.
LabelsEq(x, y) == Len(x) = Len(y) /\ \A i \in 1..Len(x) : LabelEq(x[i], y[i])

\* Mutant: the labels are compared as sets, whatever their order.
KeyEqUnordered(a, b) ==
    /\ a.name = b.name
    /\ IsSome(a.labels) = IsSome(b.labels)
    /\ IsSome(a.labels) => Range(Unwrap(a.labels)) = Range(Unwrap(b.labels))

\* #[derive(PartialEq, Eq, Hash)] for Key: the name and the Option<Vec<Label>>.
KeyEq(a, b) ==
    /\ a.name = b.name
    /\ IsSome(a.labels) = IsSome(b.labels)
    /\ IsSome(a.labels) => LabelsEq(Unwrap(a.labels), Unwrap(b.labels))

\* The functions map_name is applied to: FnOnce(ScopedString) -> ScopedString.
NameFns == {"identity", "prefix", "dots"}

ApplyNameFn(f, name) ==
    CASE f = "identity" -> name
      [] f = "prefix"   -> <<"n", "s", ".">> \o name
      [] f = "dots"     -> [i \in 1..Len(name) |-> IF name[i] = "_" THEN "." ELSE name[i]]

\* Mutant: the key is made anew from the mapped name alone.
map_name_from_name(key, f) == from_name(ApplyNameFn(f, key.name))

\* Key::map_name
map_name(key, f) == [name |-> ApplyNameFn(f, key.name), labels |-> key.labels]

\* impl fmt::Display for Key
DisplayKey(key) ==
    IF ~IsSome(key.labels)
    THEN <<"K", "e", "y", "(">> \o key.name
    ELSE LET labels   == Unwrap(key.labels)
             kv_pairs == [i \in 1..Len(labels) |->
                              labels[i][1] \o <<" ", "=", " ">> \o labels[i][2]]
         IN  <<"K", "e", "y", "(">> \o key.name \o <<",", " ", "[">>
                 \o Join(kv_pairs, <<",", " ">>) \o <<"]", ")">>

-----------------------------------------------------------------------------
(* metrics-util: Quantile and parse_quantiles.  An f64 in this model is a  *)
(* number of thousandths.                                                  *)

F64One == 10^3

\* Quantile::new: the value clamped into [0.0, 1.0].
QuantileNew(raw) == [value |-> Min(Max(raw, 0), F64One)]

\* Quantile::value
QuantileValue(q) == q.value

\* parse_quantiles: one Quantile per input, in the order of the input.
parse_quantiles(raw) == [i \in 1..Len(raw) |-> QuantileNew(raw[i])]

RECURSIVE StripZeros(_)
StripZeros(ds) ==
    IF ds # <<>> /\ ds[Len(ds)] = "0" THEN StripZeros(SubSeq(ds, 1, Len(ds) - 1)) ELSE ds

\* format!("{}", f64) for a non-negative number of thousandths: the shortest
\* decimal that reads back as the number ("0", "0.5", "0.999", "1").
DisplayF64(x) ==
    LET frac == x % F64One
        ds   == StripZeros(<<Digit(frac \div 100), Digit((frac \div 10) % 10), Digit(frac % 10)>>)
    IN  DecNat(x \div F64One) \o (IF ds = <<>> THEN <<>> ELSE <<".">> \o ds)

-----------------------------------------------------------------------------
(* hdrhistogram: Histogram<u64> with three significant figures and         *)
(* automatic resizing.  The sketch is the count kept per bucket; a bucket  *)
(* is named by the lowest value that falls into it.                        *)

SigFigs == 3

\* The number of bits of a sub-bucket index: 2^m covers 2 * 10^SigFigs.
SubBucketBits == CHOOSE m \in 1..63 : 2^(m-1) < 2 * 10^SigFigs /\ 2 * 10^SigFigs <= 2^m

RECURSIVE Log2(_)
\* The index of the highest set bit of a positive number.
Log2(x) == IF x <= 1 THEN 0 ELSE 1 + Log2(x \div 2)

\* The index of the highest set bit of a u64 (0 for zero).
Msb(v) ==
    IF IsZeroLimbs(v) THEN 0
    ELSE LET i == CHOOSE i \in 1..NLimbs : v[i] # 0 /\ \A j \in (i+1)..NLimbs : v[j] = 0
         IN  16 * (i - 1) + Log2(v[i])

\* The number of low bits that values of one bucket may differ in.
BucketShift(v) == Max(Msb(v), SubBucketBits - 1) - (SubBucketBits - 1)

\* How many of the low n bits of a u64 lie in limb i.
BitsInLimb(n, i) == Min(Max(n - 16 * (i - 1), 0), 16)

\* Histogram::lowest_equivalent: the low bits cleared.
LowestEquivalent(v) ==
    [i \in 1..NLimbs |-> v[i] - (v[i] % 2^BitsInLimb(BucketShift(v), i))]

\* The low n bits of a u64 set.
SetLowBits(v, n) ==
    [i \in 1..NLimbs |-> v[i] - (v[i] % 2^BitsInLimb(n, i)) + 2^BitsInLimb(n, i) - 1]

\* v - 1 for v > 0.
RECURSIVE DecrLimbs(_, _)
DecrLimbs(v, i) ==
    IF i > Len(v) THEN v
    ELSE IF v[i] > 0 THEN [v EXCEPT ![i] = v[i] - 1]
    ELSE DecrLimbs([v EXCEPT ![i] = LimbBase - 1], i + 1)

\* Histogram::highest_equivalent: next_non_equivalent(v) - 1, where the next
\* non-equivalent value is a saturating sum.
HighestEquivalent(v) ==
    IF v = U64Max THEN U64Max
    ELSE LET hi == SetLowBits(v, BucketShift(v))
         IN  IF hi = U64Max THEN DecrLimbs(U64Max, 1) ELSE hi

\* Histogram::<u64>::new(3): no counts.
HistNew == [b \in {} |-> 0]

\* Histogram::record: one more in the value's bucket.  The histogram resizes
\* itself to hold any u64, so the value is never out of range.
HistRecord(h, v) ==
    LET b == LowestEquivalent(v)
    IN  [ok |-> TRUE,
         h  |-> [x \in DOMAIN h \cup {b} |->
                    IF x = b THEN (IF b \in DOMAIN h THEN h[b] + 1 ELSE 1) ELSE h[x]]]

RECURSIVE SumCounts(_, _)
SumCounts(h, S) ==
    IF S = {} THEN 0
    ELSE LET x == CHOOSE x \in S : TRUE IN h[x] + SumCounts(h, S \ {x})

\* Histogram::len: the number of recorded values.
HistLen(h) == SumCounts(h, DOMAIN h)

\* The count of the values in buckets up to b.
CountUpTo(h, b) == SumCounts(h, {x \in DOMAIN h : U64LessEq(x, b)})

\* Histogram::value_at_quantile: the bucket at which the running count reaches
\* ceil(quantile * len), at least 1; its lowest value for quantile 0 and its
\* highest otherwise; 0 for an empty histogram.
ValueAtQuantile(h, q) ==
    LET fractional == q * HistLen(h)
        wanted     == Max((fractional + F64One - 1) \div F64One, 1)
        reached    == {b \in DOMAIN h : CountUpTo(h, b) >= wanted}
    IN  IF reached = {} THEN U64Zero
        ELSE LET b == CHOOSE b \in reached : \A c \in reached : U64LessEq(b, c)
             IN  IF q = 0 THEN LowestEquivalent(b) ELSE HighestEquivalent(b)

-----------------------------------------------------------------------------
(* metrics-recorder-prometheus: the pure parts.                            *)

STypePrefix == <<"\n", "#", " ", "T", "Y", "P", "E", " ">>
SCounter == <<" ", "c", "o", "u", "n", "t", "e", "r", "\n">>
SGauge == <<" ", "g", "a", "u", "g", "e", "\n">>
SSummary == <<" ", "s", "u", "m", "m", "a", "r", "y", "\n">>
SHeaderPrefix == <<"#", " ", "m", "e", "t", "r", "i", "c", "s", " ", "s", "n", "a", "p", "s", "h", "o", "t", " ", "(", "t", "s", "=">>
SHeaderSuffix == <<")", " ", "(", "p", "r", "o", "m", "e", "t", "h", "e", "u", "s", " ", "e", "x", "p", "o", "s", "i", "t", "i", "o", "n", " ", "f", "o", "r", "m", "a", "t", ")">>
SQuantilePrefix == <<"q", "u", "a", "n", "t", "i", "l", "e", "=", "\"">>
SSumSuffix == <<"_", "s", "u", "m">>
SCountSuffix == <<"_", "c", "o", "u", "n", "t">>

\* str::replace('.', "_")
ReplaceDots(s) == [i \in 1..Len(s) |-> IF s[i] = "." THEN "_" ELSE s[i]]

\* format!("{}=\"{}\"", k, v)
FormatLabel(label) == label[1] \o <<"=", "\"">> \o label[2] \o <<"\"">>

\* Mutant: the name is passed on as it is.
key_to_parts_raw_name(key) ==
    LET labels == IF IsSome(key.labels)
                  THEN [i \in 1..Len(Unwrap(key.labels)) |-> FormatLabel(Unwrap(key.labels)[i])]
                  ELSE <<>>
    IN  <<key.name, labels>>

\* key_to_parts: the name with its dots replaced, and the labels as k="v" strings
\* (none when the key has no labels).
key_to_parts(key) ==
    LET name   == ReplaceDots(key.name)
        labels == IF IsSome(key.labels)
                  THEN [i \in 1..Len(Unwrap(key.labels)) |-> FormatLabel(Unwrap(key.labels)[i])]
                  ELSE <<>>
    IN  <<name, labels>>

\* Mutant: the braces are written whether or not there are labels.
render_labeled_name_always_braces(name, labels) ==
    name \o <<"{">> \o Join(labels, <<",">>) \o <<"}">>

\* render_labeled_name
render_labeled_name(name, labels) ==
    IF labels # <<>> THEN name \o <<"{">> \o Join(labels, <<",">>) \o <<"}">>
    ELSE name

\* get_prom_expo_header: the clock reading is the seconds since the epoch, or
\* None when the clock is before the epoch.
get_prom_expo_header(clock) ==
    LET ts == UnwrapOr(clock, U64Zero)
    IN  SHeaderPrefix \o DecLimbs(ts) \o SHeaderSuffix

\* PrometheusRecorder::new's quantiles.
DefaultQuantiles == <<0, 500, 900, 950, 990, 999, 1000>>

\* PrometheusRecorder::with_quantiles
with_quantiles(quantiles, clock) ==
    [state     |-> "live",
     quantiles |-> parse_quantiles(quantiles),
     histos    |-> {},
     output    |-> get_prom_expo_header(clock)]

\* PrometheusRecorder::new
new_recorder(clock) == with_quantiles(DefaultQuantiles, clock)

\* Mutant: a counter whose name is already declared in the buffer gets no second
\* "# TYPE" line.
record_counter_declared_once(rec, key, value) ==
    LET parts     == key_to_parts(key)
        full_name == render_labeled_name(parts[1], parts[2])
        decl      == SubSeq(STypePrefix, 2, Len(STypePrefix)) \o parts[1]
                        \o SubSeq(SCounter, 1, Len(SCounter) - 1)
        seen      == decl \in Range(Lines(rec.output))
    IN  [rec EXCEPT !.output = @ \o (IF seen THEN <<"\n">> ELSE STypePrefix \o parts[1] \o SCounter)
                                 \o full_name \o <<" ">> \o DecLimbs(value) \o <<"\n">>]

\* PrometheusRecorder::record_counter
record_counter(rec, key, value) ==
    LET parts     == key_to_parts(key)
        full_name == render_labeled_name(parts[1], parts[2])
    IN  [rec EXCEPT !.output = @ \o STypePrefix \o parts[1] \o SCounter
                                 \o full_name \o <<" ">> \o DecLimbs(value) \o <<"\n">>]

\* PrometheusRecorder::record_gauge
record_gauge(rec, key, value) ==
    LET parts     == key_to_parts(key)
        full_name == render_labeled_name(parts[1], parts[2])
    IN  [rec EXCEPT !.output = @ \o STypePrefix \o parts[1] \o SGauge
                                 \o full_name \o <<" ">> \o DecInt(value) \o <<"\n">>]

RECURSIVE RecordValues(_, _, _, _)
\* The loop of record_histogram: each value goes into the sketch, then into the
\* sum.  A failed record panics; an overflowing sum panics when overflow checks
\* are compiled in and wraps otherwise.
RecordValues(sum, h, values, checks) ==
    IF values = <<>> THEN [sum |-> sum, h |-> h, panic |-> FALSE]
    ELSE LET r == HistRecord(h, Head(values))
             a == U64Add(sum, Head(values))
         IN  IF ~r.ok THEN [sum |-> sum, h |-> h, panic |-> TRUE]
             ELSE IF a.overflow /\ checks THEN [sum |-> sum, h |-> r.h, panic |-> TRUE]
             ELSE RecordValues(a.val, r.h, Tail(values), checks)

\* Mutant: HashMap::insert in place of entry().or_insert_with: every call starts
\* the key's entry afresh.
EntryOrInsertFresh(histos, key) == [key |-> key, sum |-> U64Zero, h |-> HistNew]

\* HashMap::entry(key).or_insert_with: the entry whose key equals key, or a new
\* one with sum 0 and an empty histogram.
EntryOrInsert(histos, key) ==
    IF \E e \in histos : KeyEq(e.key, key)
    THEN CHOOSE e \in histos : KeyEq(e.key, key)
    ELSE [key |-> key, sum |-> U64Zero, h |-> HistNew]

\* Mutant: the map is keyed by the metric name alone, so the entry written
\* replaces every entry of that name.
record_histogram_by_name(rec, key, values, checks) ==
    LET entry == EntryOrInsert(rec.histos, key)
        res   == RecordValues(entry.sum, entry.h, values, checks)
    IN  [rec   |-> [rec EXCEPT !.histos =
                       {e \in @ : e.key.name # key.name}
                           \cup {[key |-> entry.key, sum |-> res.sum, h |-> res.h]}],
         panic |-> res.panic]

\* PrometheusRecorder::record_histogram
record_histogram(rec, key, values, checks) ==
    LET entry == EntryOrInsert(rec.histos, key)
        res   == RecordValues(entry.sum, entry.h, values, checks)
    IN  [rec   |-> [rec EXCEPT !.histos =
                       {e \in @ : ~KeyEq(e.key, key)}
                           \cup {[key |-> entry.key, sum |-> res.sum, h |-> res.h]}],
         panic |-> res.panic]

\* Mutant: a field-by-field copy, as #[derive(Clone)] would make.
clone_snapshot(rec, clock) == rec

\* impl Clone for PrometheusRecorder
clone(rec, clock) ==
    [state     |-> "live",
     output    |-> get_prom_expo_header(clock),
     histos    |-> {},
     quantiles |-> rec.quantiles]

\* Mutant: a quantile equal to the one before it gets no line of its own.
SummaryBlockDedup(quantiles, entry) ==
    LET parts  == key_to_parts(entry.key)
        name   == parts[1]
        labels == parts[2]
        qline(q) ==
            render_labeled_name(name,
                Append(labels, SQuantilePrefix \o DisplayF64(QuantileValue(q)) \o <<"\"">>))
              \o <<" ">> \o DecLimbs(ValueAtQuantile(entry.h, QuantileValue(q))) \o <<"\n">>
    IN  STypePrefix \o name \o SSummary
          \o Flatten([i \in 1..Len(quantiles) |->
                         IF i > 1 /\ quantiles[i] = quantiles[i-1] THEN <<>>
                         ELSE qline(quantiles[i])])
          \o render_labeled_name(name \o SSumSuffix, labels)
          \o <<" ">> \o DecLimbs(entry.sum) \o <<"\n">>
          \o render_labeled_name(name \o SCountSuffix, labels)
          \o <<" ">> \o DecNat(HistLen(entry.h)) \o <<"\n">>

\* Mutant: the quantile label is pushed onto the key's own label list, which
\* keeps it for the lines that follow.
SummaryBlockLeaky(quantiles, entry) ==
    LET parts  == key_to_parts(entry.key)
        name   == parts[1]
        qlabel(j) == SQuantilePrefix \o DisplayF64(QuantileValue(quantiles[j])) \o <<"\"">>
        labels(j) == parts[2] \o [l \in 1..j |-> qlabel(l)]
        qline(j) ==
            render_labeled_name(name, labels(j))
              \o <<" ">> \o DecLimbs(ValueAtQuantile(entry.h, QuantileValue(quantiles[j]))) \o <<"\n">>
    IN  STypePrefix \o name \o SSummary
          \o Flatten([j \in 1..Len(quantiles) |-> qline(j)])
          \o render_labeled_name(name \o SSumSuffix, labels(Len(quantiles)))
          \o <<" ">> \o DecLimbs(entry.sum) \o <<"\n">>
          \o render_labeled_name(name \o SCountSuffix, labels(Len(quantiles)))
          \o <<" ">> \o DecNat(HistLen(entry.h)) \o <<"\n">>

\* One pass of the loop over the histograms in into(): the summary block of an entry.
SummaryBlock(quantiles, entry) ==
    LET parts  == key_to_parts(entry.key)
        name   == parts[1]
        labels == parts[2]
        qline(q) ==
            render_labeled_name(name,
                Append(labels, SQuantilePrefix \o DisplayF64(QuantileValue(q)) \o <<"\"">>))
              \o <<" ">> \o DecLimbs(ValueAtQuantile(entry.h, QuantileValue(q))) \o <<"\n">>
    IN  STypePrefix \o name \o SSummary
          \o Flatten([i \in 1..Len(quantiles) |-> qline(quantiles[i])])
          \o render_labeled_name(name \o SSumSuffix, labels)
          \o <<" ">> \o DecLimbs(entry.sum) \o <<"\n">>
          \o render_labeled_name(name \o SCountSuffix, labels)
          \o <<" ">> \o DecNat(HistLen(entry.h)) \o <<"\n">>

\* Mutant: the summary blocks are written first and the text buffer after them.
into_summaries_first(rec, order) ==
    Flatten([i \in 1..Len(order) |-> SummaryBlock(rec.quantiles, order[i])]) \o rec.output

\* impl Into<String> for PrometheusRecorder: the text buffer, then the summary
\* block of each histogram in the order the map yields them.
into(rec, order) ==
    rec.output \o Flatten([i \in 1..Len(order) |-> SummaryBlock(rec.quantiles, order[i])])

\* Mutant: into() through a reference: the recorder stays as it was.
NotMoved(rec) == rec

\* What is left under the id of a recorder that into(self) consumed.
Moved(rec) == [state |-> "moved", quantiles |-> <<>>, histos |-> {}, output |-> <<>>]

Absent == [state |-> "absent", quantiles |-> <<>>, histos |-> {}, output |-> <<>>]

-----------------------------------------------------------------------------
(* The inputs the operations are called with.                              *)

Ids == 1..MaxRecorders

NameDots == <<"a", ".", "b", ".", "c">>
NameMixed == <<"a", "_", "b", ".", "c">>
NamePlain == <<"r", "q">>
Names == {NameDots, NameMixed, NamePlain}

L1 == Label(<<"r", ".", "m">>, <<"k">>)
L2 == Label(<<"z">>, <<"v", ".", "1">>)
LabelSeqs == {<<>>, <<L1>>, <<L1, L2>>, <<L2, L1>>}

\* Every key the constructors make of these names and labels.
Keys == {from_name(n) : n \in Names}
            \cup {from_name_and_labels(n, ls) : n \in Names, ls \in LabelSeqs}

CounterValues == {U64Of(42), U64Max}
GaugeValues == {-3, 7}
HistValues == {U64Of(3), U64Of(2048), U64Pow63}
Batches == SeqsUpTo(HistValues, MaxBatch)

\* Clock readings: before the epoch, or seconds since the epoch.
ClockReadings == {None, Some(U64Of(1572375000))}

-----------------------------------------------------------------------------
(* The state machine.                                                      *)

IdleKey == [op |-> "none", name |-> <<>>, labels |-> <<>>, fns |-> <<>>, key |-> None,
            shown |-> None]

\* One recorder, just constructed by with_quantiles.
InitWith(configs, clocks, profiles) ==
    /\ \E q \in configs, c \in clocks :
          /\ recorders = [r \in Ids |-> IF r = 1 THEN with_quantiles(q, c) ELSE Absent]
          /\ config = [r \in Ids |-> IF r = 1 THEN q ELSE <<>>]
    /\ rendered = [r \in Ids |-> None]
    /\ panicked = FALSE
    /\ overflow_checks \in profiles
    /\ calls = [r \in Ids |-> <<>>]
    /\ finalizations = [r \in Ids |-> 0]
    /\ last = [op |-> "with_quantiles", rec |-> 1]
    /\ kcall = IdleKey
    /\ budget = MaxCalls

RECURSIVE SumLens(_, _)
SumLens(f, S) ==
    IF S = {} THEN 0
    ELSE LET x == CHOOSE x \in S : TRUE IN Len(f[x]) + SumLens(f, S \ {x})

\* The number of record_* calls made so far.
TotalCalls == SumLens(calls, Ids)

\* The values passed to record_histogram on recorder r so far, for any key.
ObsOf(r) ==
    Flatten([i \in 1..Len(calls[r]) |->
                IF calls[r][i].op = "histogram" THEN calls[r][i].value ELSE <<>>])

CanCall(r) == ~panicked /\ recorders[r].state = "live" /\ TotalCalls < budget

RecordCounter(r, key, value) ==
    /\ CanCall(r)
    /\ recorders' = [recorders EXCEPT ![r] = record_counter(@, key, value)]
    /\ calls' = [calls EXCEPT ![r] = Append(@, [op |-> "counter", key |-> key, value |-> value])]
    /\ last' = [op |-> "record_counter", rec |-> r]
    /\ UNCHANGED <<rendered, panicked, overflow_checks, config, finalizations, kcall, budget>>

RecordGauge(r, key, value) ==
    /\ CanCall(r)
    /\ recorders' = [recorders EXCEPT ![r] = record_gauge(@, key, value)]
    /\ calls' = [calls EXCEPT ![r] = Append(@, [op |-> "gauge", key |-> key, value |-> value])]
    /\ last' = [op |-> "record_gauge", rec |-> r]
    /\ UNCHANGED <<rendered, panicked, overflow_checks, config, finalizations, kcall, budget>>

RecordHistogram(r, key, values) ==
    /\ CanCall(r)
    /\ Len(ObsOf(r)) + Len(values) <= MaxObs
    /\ LET res == record_histogram(recorders[r], key, values, overflow_checks)
       IN  /\ recorders' = [recorders EXCEPT ![r] = res.rec]
           /\ panicked' = res.panic
    /\ calls' = [calls EXCEPT ![r] = Append(@, [op |-> "histogram", key |-> key, value |-> values])]
    /\ last' = [op |-> "record_histogram", rec |-> r]
    /\ UNCHANGED <<rendered, overflow_checks, config, finalizations, kcall, budget>>

\* let copy = recorder.clone(): the copy is held under the next free id.
Clone(src, clock) ==
    /\ ~panicked
    /\ recorders[src].state = "live"
    /\ \E d \in Ids : recorders[d].state = "absent"
    /\ LET dst == CHOOSE d \in Ids : recorders[d].state = "absent"
                                      /\ \A e \in Ids : recorders[e].state = "absent" => d <= e
       IN  /\ recorders' = [recorders EXCEPT ![dst] = clone(recorders[src], clock)]
           /\ config' = [config EXCEPT ![dst] = config[src]]
           /\ last' = [op |-> "clone", rec |-> dst, src |-> src, clock |-> clock]
    /\ UNCHANGED <<rendered, panicked, overflow_checks, calls, finalizations, kcall, budget>>

\* let text: String = recorder.into(): the map yields its entries in any order.
Finalize(r) ==
    /\ ~panicked
    /\ recorders[r].state = "live"
    /\ \E order \in Perms(recorders[r].histos) :
          rendered' = [rendered EXCEPT ![r] = Some(into(recorders[r], order))]
    /\ recorders' = [recorders EXCEPT ![r] = Moved(@)]
    /\ finalizations' = [finalizations EXCEPT ![r] = @ + 1]
    /\ last' = [op |-> "into", rec |-> r]
    /\ UNCHANGED <<panicked, overflow_checks, config, calls, kcall, budget>>

-----------------------------------------------------------------------------
(* Spec: the life of a recorder and of its clone, from construction to     *)
(* rendering, with a few calls of each kind.                               *)

Init == InitWith({DefaultQuantiles}, ClockReadings, {FALSE})

Next ==
    \E r \in Ids :
        \/ RecordCounter(r, from_name(NameDots), U64Of(42))
        \/ RecordGauge(r, from_name_and_labels(NamePlain, <<L1, L2>>), -3)
        \/ RecordHistogram(r, from_name(NameDots), <<U64Of(3)>>)
        \/ RecordHistogram(r, from_name_and_labels(NamePlain, <<L1, L2>>), <<U64Of(2048), U64Of(3)>>)
        \/ \E c \in ClockReadings : Clone(r, c)
        \/ Finalize(r)

Spec == Init /\ [][Next]_vars

-----------------------------------------------------------------------------
(* SpecText: one recorder receiving counters and gauges.                   *)

TextKeys == {from_name(NameDots),
             from_name_and_labels(NameDots, <<>>),
             from_name_and_labels(NameDots, <<L1, L2>>),
             from_name_and_labels(NamePlain, <<L2, L1>>)}

TextHistKeys == {from_name(NameDots), from_name_and_labels(NameDots, <<>>),
                 from_name_and_labels(NameDots, <<L1, L2>>)}

InitText == InitWith({<<1000, 0>>}, {None}, {FALSE})

NextText ==
    \/ \E k \in TextKeys, v \in CounterValues : RecordCounter(1, k, v)
    \/ \E k \in TextKeys, v \in GaugeValues : RecordGauge(1, k, v)
    \/ \E k \in TextHistKeys : RecordHistogram(1, k, <<U64Of(3)>>)
    \/ Finalize(1)

SpecText == InitText /\ [][NextText]_vars

-----------------------------------------------------------------------------
(* SpecHist: one recorder receiving batches of histogram values for        *)
(* several keys, in either build profile.                                  *)

HistKeys == {from_name_and_labels(NamePlain, <<L1, L2>>),
             from_name_and_labels(NamePlain, <<L2, L1>>)}

InitHist == InitWith({<<1000, 500, 500, 0>>}, {None}, BOOLEAN)

NextHist ==
    \/ \E k \in HistKeys, b \in Batches : RecordHistogram(1, k, b)
    \/ RecordCounter(1, from_name(NameDots), U64Of(42))
    \/ RecordGauge(1, from_name_and_labels(NamePlain, <<L1, L2>>), -3)
    \/ Finalize(1)

SpecHist == InitHist /\ [][NextHist]_vars

-----------------------------------------------------------------------------
(* SpecQuant: one recorder receiving single values for one key, among them *)
(* two values of one bucket and the largest u64, rendered under quantiles  *)
(* configured out of order.                                                *)

QuantKey == from_name_and_labels(NamePlain, <<L1>>)

QuantValues == {U64Of(3), U64Of(2048), U64Of(2049), U64Pow63, U64Max}

InitQuant == InitWith({<<1000, 0, 500>>}, {None}, {FALSE})

NextQuant ==
    \/ \E v \in QuantValues : RecordHistogram(1, QuantKey, <<v>>)
    \/ Finalize(1)

SpecQuant == InitQuant /\ [][NextQuant]_vars

-----------------------------------------------------------------------------
(* SpecTwin: two recorders constructed with the same quantiles, each at    *)
(* its own clock reading, receive histogram values and are rendered.       *)

MaxTwinCalls == 4

TwinKeys == {from_name(NamePlain), from_name_and_labels(NamePlain, <<L1>>)}

InitTwin ==
    /\ \E c \in [Ids -> ClockReadings] :
          recorders = [r \in Ids |-> with_quantiles(<<500>>, c[r])]
    /\ config = [r \in Ids |-> <<500>>]
    /\ rendered = [r \in Ids |-> None]
    /\ panicked = FALSE
    /\ overflow_checks = FALSE
    /\ calls = [r \in Ids |-> <<>>]
    /\ finalizations = [r \in Ids |-> 0]
    /\ last = [op |-> "with_quantiles", rec |-> 1]
    /\ kcall = IdleKey
    /\ budget = MaxTwinCalls

NextTwin ==
    \E r \in Ids :
        \/ \E k \in TwinKeys : RecordHistogram(r, k, <<U64Of(3)>>)
        \/ Finalize(r)

SpecTwin == InitTwin /\ [][NextTwin]_vars

-----------------------------------------------------------------------------
(* SpecKey: a key is constructed from a name and labels, mapped and        *)
(* displayed.                                                              *)

InitKey ==
    /\ recorders = [r \in Ids |-> Absent]
    /\ rendered = [r \in Ids |-> None]
    /\ panicked = FALSE
    /\ overflow_checks = FALSE
    /\ config = [r \in Ids |-> <<>>]
    /\ calls = [r \in Ids |-> <<>>]
    /\ finalizations = [r \in Ids |-> 0]
    /\ last = [op |-> "none", rec |-> 0]
    /\ budget = MaxCalls
    /\ \E n \in Names, ls \in LabelSeqs : kcall = [IdleKey EXCEPT !.name = n, !.labels = ls]

\* The Key operations leave the recorders alone.
KeyFrame == UNCHANGED <<recorders, rendered, panicked, overflow_checks, config, calls,
                        finalizations, last, budget>>

KFromName ==
    /\ kcall.op = "none"
    /\ kcall' = [kcall EXCEPT !.op = "from_name", !.key = Some(from_name(kcall.name))]
    /\ KeyFrame

KFromNameAndLabels ==
    /\ kcall.op = "none"
    /\ kcall' = [kcall EXCEPT !.op = "from_name_and_labels",
                              !.key = Some(from_name_and_labels(kcall.name, kcall.labels))]
    /\ KeyFrame

KMapName(f) ==
    /\ IsSome(kcall.key)
    /\ ~IsSome(kcall.shown)
    /\ Len(kcall.fns) < MaxMaps
    /\ kcall' = [kcall EXCEPT !.fns = Append(@, f), !.key = Some(map_name(Unwrap(@), f))]
    /\ KeyFrame

KDisplay ==
    /\ IsSome(kcall.key)
    /\ ~IsSome(kcall.shown)
    /\ kcall' = [kcall EXCEPT !.shown = Some(DisplayKey(Unwrap(kcall.key)))]
    /\ KeyFrame

NextKey ==
    \/ KFromName
    \/ KFromNameAndLabels
    \/ \E f \in NameFns : KMapName(f)
    \/ KDisplay

SpecKey == InitKey /\ [][NextKey]_vars

-----------------------------------------------------------------------------
(* What the history says was recorded.                                     *)

\* The indices of the calls of kind op made on recorder r.
CallsOf(r, op) == {i \in 1..Len(calls[r]) : calls[r][i].op = op}

\* The keys record_histogram was called with on recorder r.
HistKeysOf(r) == {calls[r][i].key : i \in CallsOf(r, "histogram")}

\* The values passed to record_histogram for key k on recorder r, batch after batch.
ValuesFor(r, k) ==
    Flatten([i \in 1..Len(calls[r]) |->
                IF calls[r][i].op = "histogram" /\ calls[r][i].key = k
                THEN calls[r][i].value ELSE <<>>])

\* The histogram entry a new recorder holds after one record_histogram(k, values).
OneCall(k, values) ==
    LET res == record_histogram(with_quantiles(<<>>, None), k, values, overflow_checks)
    IN  CHOOSE e \in res.rec.histos : TRUE

\* The quantiles the entries are compared at.
ProbeQuantiles == {0, 250, 500, 900, 990, 1000}

-----------------------------------------------------------------------------
\* C1: histogram merge equivalence.  Whatever batches the values recorded for a
\* key arrived in, and whatever other calls came between them, the recorder
\* holds for that key the entry one record_histogram call with all the values
\* would have made: the same sum, the same count, the same quantile results.
C1_MergeEquivalence ==
    \A r \in Ids : recorders[r].state = "live" =>
        /\ {e.key : e \in recorders[r].histos} = HistKeysOf(r)
        /\ \A e \in recorders[r].histos :
              LET one == OneCall(e.key, ValuesFor(r, e.key))
              IN  /\ e.sum = one.sum
                  /\ HistLen(e.h) = HistLen(one.h)
                  /\ \A q \in ProbeQuantiles :
                        ValueAtQuantile(e.h, q) = ValueAtQuantile(one.h, q)

\* Two non-empty batches for one key with another call between them.
C1_Witness ==
    /\ recorders[1].state = "live" /\ ~panicked
    /\ Len(calls[1]) = 3
    /\ calls[1][1].op = "histogram" /\ calls[1][3].op = "histogram"
    /\ calls[1][1].key = calls[1][3].key
    /\ calls[1][1].value # <<>> /\ calls[1][3].value # <<>>
    /\ \/ calls[1][2].op = "counter"
       \/ calls[1][2].op = "histogram" /\ calls[1][2].key # calls[1][1].key

-----------------------------------------------------------------------------
(* Reading exposition text back.                                           *)

STypeWord == <<"#", " ", "T", "Y", "P", "E", " ">>

\* The index of the last c in s, or 0.
LastIndexOf(s, c) ==
    IF Contains(s, c) THEN CHOOSE i \in 1..Len(s) : s[i] = c /\ \A j \in (i+1)..Len(s) : s[j] # c
    ELSE 0

\* A line taken apart: a blank line, a "# TYPE <name> <type>" line, another
\* comment, or a sample "<name>{<labels>} <value>" with its labels split at commas.
ParseLine(line) ==
    LET none == [kind |-> "blank", name |-> <<>>, mtype |-> <<>>, braces |-> FALSE,
                 labels |-> <<>>, value |-> <<>>]
    IN  IF line = <<>> THEN none
        ELSE IF IsPrefix(STypeWord, line)
        THEN LET w == Split(Drop(line, Len(STypeWord)), " ")
             IN  [none EXCEPT !.kind = "type", !.name = w[1],
                              !.mtype = IF Len(w) = 2 THEN w[2] ELSE <<>>]
        ELSE IF Head(line) = "#" THEN [none EXCEPT !.kind = "comment"]
        ELSE LET sp   == LastIndexOf(line, " ")
                 head == SubSeq(line, 1, sp - 1)
                 br   == IndexOf(head, "{")
             IN  [none EXCEPT !.kind = "sample",
                              !.name = SubSeq(head, 1, br - 1),
                              !.braces = br <= Len(head),
                              !.labels = IF br >= Len(head) - 1 THEN <<>>
                                         ELSE Split(SubSeq(head, br + 1, Len(head) - 1), ","),
                              !.value = Drop(line, sp)]

IsSuffixOf(p, s) == Len(p) <= Len(s) /\ SubSeq(s, Len(s) - Len(p) + 1, Len(s)) = p

\* The lines of a text, each taken apart.
Parsed(text) == LET ls == Lines(text) IN [i \in 1..Len(ls) |-> ParseLine(ls[i])]

\* The texts that exist: the buffer of every live recorder and every rendered String.
TextOf(r) ==
    IF IsSome(rendered[r]) THEN Unwrap(rendered[r])
    ELSE IF recorders[r].state = "live" THEN recorders[r].output
    ELSE <<>>

RECURSIVE ExactSum(_)
\* The arithmetic sum of u64 values, in five limbs: no value is lost to the width.
ExactSum(values) ==
    IF values = <<>> THEN <<0, 0, 0, 0, 0>>
    ELSE SubSeq(WideAdd(Head(values) \o <<0>>, ExactSum(Tail(values))), 1, NLimbs + 1)

-----------------------------------------------------------------------------
\* C2: the _sum line of a key's summary is the arithmetic sum of all the values
\* recorded for the key, never a wrapped total, and the _count line is their
\* number.
C2_SumAndCount ==
    \A r \in Ids : IsSome(rendered[r]) =>
        \A k \in HistKeysOf(r) :
            LET parts == key_to_parts(k)
                lines == Range(Lines(Unwrap(rendered[r])))
            IN  /\ render_labeled_name(parts[1] \o SSumSuffix, parts[2]) \o <<" ">>
                       \o DecLimbs(ExactSum(ValuesFor(r, k))) \in lines
                /\ render_labeled_name(parts[1] \o SCountSuffix, parts[2]) \o <<" ">>
                       \o DecNat(Len(ValuesFor(r, k))) \in lines

-----------------------------------------------------------------------------
(* The text the spec describes, written out from the history.              *)

\* A name with every "." turned into "_".
EscapedName(name) == Join(Split(name, "."), <<"_">>)

\* k="v" with the label's own characters.
LabelText(label) == label[1] \o <<"=", "\"">> \o label[2] \o <<"\"">>

\* The labels of a key, none when it has no labels.
OwnLabels(key) == IF key.labels = None THEN <<>> ELSE key.labels[1]

\* {k1="v1",k2="v2"} in the labels' own order, after which come the extra
\* labels; nothing when there is no label at all.
LabelBlock(key, extra) ==
    LET all == [i \in 1..Len(OwnLabels(key)) |-> LabelText(OwnLabels(key)[i])] \o extra
    IN  IF all = <<>> THEN <<>> ELSE <<"{">> \o Join(all, <<",">>) \o <<"}">>

IsTextCall(c) == c.op \in {"counter", "gauge"}

\* The counter and gauge calls made on recorder r, in order.
TextCalls(r) == SelectSeq(calls[r], IsTextCall)

KindWord(c) == IF c.op = "counter" THEN <<"c", "o", "u", "n", "t", "e", "r">>
               ELSE <<"g", "a", "u", "g", "e">>

ValueText(c) == IF c.op = "counter" THEN DecLimbs(c.value) ELSE DecInt(c.value)

\* The three lines of a counter or gauge call: the declaration, the sample, and
\* the empty line its closing line feed opens.
BlockLines(c) ==
    << STypeWord \o EscapedName(c.key.name) \o <<" ">> \o KindWord(c),
       EscapedName(c.key.name) \o LabelBlock(c.key, <<>>) \o <<" ">> \o ValueText(c),
       <<>> >>

-----------------------------------------------------------------------------
\* C3: every record_counter or record_gauge call appends exactly one block, a
\* "# TYPE <name> counter|gauge" line immediately followed by a
\* "<name>{labels} <value>" line carrying the value of that call; n calls with
\* one key leave n blocks: nothing is summed, overwritten or left out.
C3_OneBlockPerCall ==
    \A r \in Ids : recorders[r].state = "live" =>
        LET lines == Lines(recorders[r].output)
            text  == TextCalls(r)
        IN  /\ ParseLine(Head(lines)).kind = "comment"
            /\ Tail(lines) = Flatten([i \in 1..Len(text) |-> BlockLines(text[i])])

\* Three calls with one key: two counters with different values, then a gauge.
C3_Witness ==
    /\ recorders[1].state = "live"
    /\ Len(calls[1]) = 3
    /\ calls[1][1].op = "counter" /\ calls[1][2].op = "counter" /\ calls[1][3].op = "gauge"
    /\ calls[1][1].key = calls[1][2].key /\ calls[1][2].key = calls[1][3].key
    /\ calls[1][1].value # calls[1][2].value

\* The quantiles a recorder configured with raw renders, as label texts.
QuantileLabels(raw) ==
    [j \in 1..Len(raw) |->
        SQuantilePrefix \o DisplayF64(Min(Max(raw[j], 0), F64One)) \o <<"\"">>]

IsQuantileLabel(l) == IsPrefix(SQuantilePrefix, l)

\* The labels of a parsed sample that are not a quantile label.
KeyLabelsOf(p) == SelectSeq(p.labels, LAMBDA l : ~IsQuantileLabel(l))

\* The metric names the output may use for a call: the escaped name, and for a
\* histogram also its _sum and _count.
NamesFor(c) ==
    LET n == EscapedName(c.key.name)
    IN  IF c.op = "histogram" THEN {n, n \o SSumSuffix, n \o SCountSuffix} ELSE {n}

-----------------------------------------------------------------------------
\* C7: every line emitted for a key (TYPE lines and samples of counters, gauges
\* and summaries, _sum and _count included) names the metric by the key's name
\* with every "." replaced by "_", so no emitted metric name holds a dot; the
\* label keys and values are emitted as they are.
C7_NamesEscaped ==
    \A r \in Ids :
        LET ps == Parsed(TextOf(r))
        IN  /\ \A i \in 1..Len(ps) : ps[i].kind \in {"type", "sample"} =>
                  /\ ~Contains(ps[i].name, ".")
                  /\ \E j \in 1..Len(calls[r]) :
                        /\ ps[i].name \in NamesFor(calls[r][j])
                        /\ ps[i].kind = "sample" =>
                              KeyLabelsOf(ps[i]) =
                                  [l \in 1..Len(OwnLabels(calls[r][j].key)) |->
                                      LabelText(OwnLabels(calls[r][j].key)[l])]
            /\ \A j \in 1..Len(calls[r]) :
                  (IsTextCall(calls[r][j]) \/ IsSome(rendered[r])) =>
                      \A n \in NamesFor(calls[r][j]) :
                          \E i \in 1..Len(ps) : ps[i].name = n

\* A rendered text with a summary and a counter or gauge, for keys whose name has
\* dots and whose labels have dots.
C7_Witness ==
    /\ IsSome(rendered[1])
    /\ \E i, j \in 1..Len(calls[1]) :
          /\ calls[1][i].op = "histogram" /\ Contains(calls[1][i].key.name, ".")
          /\ OwnLabels(calls[1][i].key) = <<L1, L2>>
          /\ IsTextCall(calls[1][j]) /\ Contains(calls[1][j].key.name, ".")
          /\ OwnLabels(calls[1][j].key) = <<L1, L2>>

-----------------------------------------------------------------------------
\* C8: a sample is written name{k1="v1",k2="v2"} with the key's labels in their
\* own order, and as the bare name, without braces, when the key has no labels or
\* an empty label sequence; on the quantile lines of a summary quantile="<q>"
\* comes after the key's labels, name{quantile="<q>"} when the key has none.
C8_LabelBlocks ==
    \A r \in Ids :
        LET lines == Lines(TextOf(r))
            text  == TextCalls(r)
        IN  /\ TextOf(r) # <<>> =>
                  \A i \in 1..Len(text) :
                      lines[3 * i] = EscapedName(text[i].key.name)
                                       \o LabelBlock(text[i].key, <<>>)
                                       \o <<" ">> \o ValueText(text[i])
            /\ IsSome(rendered[r]) =>
                  \A k \in HistKeysOf(r) : \A q \in Range(QuantileLabels(config[r])) :
                      \E i \in 1..Len(lines) :
                          IsPrefix(EscapedName(k.name) \o LabelBlock(k, <<q>>) \o <<" ">>,
                                   lines[i])

\* A rendered text with the summaries of a key without labels and of a key with
\* an empty label sequence, and a counter or gauge with labels.
C8_Witness ==
    /\ IsSome(rendered[1])
    /\ \E i, j, l \in 1..Len(calls[1]) :
          /\ calls[1][i].op = "histogram" /\ calls[1][i].key.labels = None
          /\ calls[1][l].op = "histogram" /\ calls[1][l].key.labels = Some(<<>>)
          /\ IsTextCall(calls[1][j]) /\ OwnLabels(calls[1][j].key) = <<L2, L1>>

\* The labels of a key as the texts a sample carries.
LabelTexts(key) == [l \in 1..Len(OwnLabels(key)) |-> LabelText(OwnLabels(key)[l])]

\* The parsed lines ps hold at i the summary block of key k under the quantile
\* labels qs: the declaration, one line per quantile in the order of qs, then
\* _sum, then _count.
IsSummaryBlock(ps, i, k, qs) ==
    LET n    == EscapedName(k.name)
        own  == LabelTexts(k)
        is(j, name, labels) ==
            /\ i + j <= Len(ps)
            /\ ps[i + j].kind = "sample"
            /\ ps[i + j].name = name
            /\ ps[i + j].labels = labels
    IN  /\ ps[i].kind = "type" /\ ps[i].name = n
        /\ ps[i].mtype = <<"s", "u", "m", "m", "a", "r", "y">>
        /\ \A j \in 1..Len(qs) : is(j, n, Append(own, qs[j]))
        /\ is(Len(qs) + 1, n \o SSumSuffix, own)
        /\ is(Len(qs) + 2, n \o SCountSuffix, own)

-----------------------------------------------------------------------------
\* C9: rendering emits exactly one summary block per distinct histogram key,
\* however many record_histogram calls the key received: the "# TYPE <name>
\* summary" line, one quantile line per configured quantile in the configured
\* order (unsorted and repeated quantiles stay so), the _sum line, the _count line.
C9_OneSummaryPerKey ==
    \A r \in Ids : IsSome(rendered[r]) =>
        LET ps == Parsed(Unwrap(rendered[r]))
            qs == QuantileLabels(config[r])
            summaries == {i \in 1..Len(ps) : ps[i].kind = "type"
                                             /\ ps[i].mtype = <<"s", "u", "m", "m", "a", "r", "y">>}
        IN  /\ Cardinality(summaries) = Cardinality(HistKeysOf(r))
            /\ \A i \in summaries : \E k \in HistKeysOf(r) : IsSummaryBlock(ps, i, k, qs)
            /\ \A k \in HistKeysOf(r) :
                  Cardinality({i \in summaries : IsSummaryBlock(ps, i, k, qs)}) = 1
            /\ Cardinality({i \in 1..Len(ps) : ps[i].kind = "sample"})
                   = Len(TextCalls(r)) + Cardinality(HistKeysOf(r)) * (Len(qs) + 2)

\* A rendered text for two keys, one of which received two batches, under
\* quantiles that are unsorted and repeated.
C9_Witness ==
    /\ IsSome(rendered[1])
    /\ Cardinality(HistKeysOf(1)) = 2
    /\ \E i, j \in CallsOf(1, "histogram") : i # j /\ calls[1][i].key = calls[1][j].key
    /\ config[1] = <<1000, 500, 500, 0>>

-----------------------------------------------------------------------------
\* C10: keys are equal by value and in order: equal names and label sequences
\* equal element by element; the same labels in another order make another key,
\* so that record_histogram keeps one entry for each of the two keys, holding
\* the values recorded for it.
C10_KeyEquality ==
    /\ \A a, b \in Keys : KeyEq(a, b) <=> (a.name = b.name /\ a.labels = b.labels)
    /\ \A r \in Ids : (recorders[r].state = "live" /\ ~panicked) =>
          /\ Cardinality(recorders[r].histos) = Cardinality(HistKeysOf(r))
          /\ \A k \in HistKeysOf(r) :
                \E e \in recorders[r].histos :
                    e.key = k /\ HistLen(e.h) = Len(ValuesFor(r, k))

\* Values recorded for two keys with one name and the same labels in two orders.
C10_Witness ==
    /\ recorders[1].state = "live" /\ ~panicked
    /\ \E d, e \in recorders[1].histos :
          /\ d.key.name = e.key.name
          /\ OwnLabels(d.key) = <<L1, L2>> /\ OwnLabels(e.key) = <<L2, L1>>
          /\ HistLen(d.h) > 0 /\ HistLen(e.h) > 0

-----------------------------------------------------------------------------
\* C4: from_name_and_labels with an empty label sequence makes the key that
\* from_name makes: equal to it, with no labels rather than an empty sequence.
C4_EmptyLabelsNormalized ==
    (kcall.op = "from_name_and_labels" /\ kcall.labels = <<>>) =>
        /\ KeyEq(Unwrap(kcall.key), from_name(kcall.name))
        /\ Unwrap(kcall.key).labels = None

-----------------------------------------------------------------------------
\* C5: a recorder is rendered at most once, and once it has been rendered
\* nothing is recorded on it, cloned from it or rendered from it again.
C5_OneShot ==
    [][\A r \in Ids :
          /\ finalizations'[r] <= 1
          /\ recorders[r].state = "moved" =>
                /\ recorders'[r] = recorders[r]
                /\ rendered'[r] = rendered[r]
                /\ calls'[r] = calls[r]
                /\ finalizations'[r] = finalizations[r]
                /\ (last' # last => last'.rec # r /\ (last'.op = "clone" => last'.src # r))]_vars

\* The first recorder has been rendered after calls; its clone is still recording.
C5_Witness ==
    /\ recorders[1].state = "moved" /\ IsSome(rendered[1]) /\ calls[1] # <<>>
    /\ recorders[2].state = "live" /\ calls[2] # <<>>

-----------------------------------------------------------------------------
\* C6: a clone has the quantiles of its original, in the same order, no
\* histogram and a buffer holding only a new header line; what was recorded on
\* the original is in no line of the clone's rendered text, and a call on one
\* recorder changes no other recorder.
C6_CloneIsBlank ==
    [][/\ \A d \in Ids :
             (recorders[d].state = "absent" /\ recorders'[d].state = "live") =>
                 /\ recorders'[d].quantiles = recorders[last'.src].quantiles
                 /\ recorders'[d].histos = {}
                 /\ recorders'[d].output
                        = SHeaderPrefix \o DecLimbs(UnwrapOr(last'.clock, U64Zero)) \o SHeaderSuffix
       /\ \A r \in Ids : r # last'.rec =>
             recorders'[r] = recorders[r] /\ rendered'[r] = rendered[r]
       /\ \A r \in Ids : IsSome(rendered'[r]) =>
             LET ps == Parsed(Unwrap(rendered'[r]))
             IN  Cardinality({i \in 1..Len(ps) : ps[i].kind = "sample"})
                    = Len(TextCalls(r)') + Cardinality(HistKeysOf(r)') * (Len(config'[r]) + 2)]_vars

\* A recorder that holds a counter block and a histogram has just been cloned.
C6_Witness ==
    /\ last.op = "clone"
    /\ recorders[last.rec].state = "live"
    /\ recorders[last.src].histos # {}
    /\ TextCalls(last.src) # <<>>


-----------------------------------------------------------------------------
(* Reading emitted numbers back.                                           *)

RECURSIVE MulAddFrom(_, _, _)
\* v * m + carry, limb by limb, within the limbs of v.
MulAddFrom(v, m, carry) ==
    IF v = <<>> THEN <<>>
    ELSE LET t == Head(v) * m + carry
         IN  <<t % LimbBase>> \o MulAddFrom(Tail(v), m, t \div LimbBase)

DigitValue(c) == CHOOSE d \in 0..9 : Digit(d) = c

RECURSIVE ParseDec(_)
\* The u64 a decimal text stands for.
ParseDec(text) ==
    IF text = <<>> THEN U64Zero
    ELSE MulAddFrom(ParseDec(SubSeq(text, 1, Len(text) - 1)), 10, DigitValue(text[Len(text)]))

\* The value on the j-th quantile line of the summary block of key k in the
\* text rendered from recorder r.
EmittedQuantile(r, k, j) ==
    LET ps == Parsed(Unwrap(rendered[r]))
        i  == CHOOSE i \in 1..Len(ps) : IsSummaryBlock(ps, i, k, QuantileLabels(config[r]))
    IN  ParseDec(ps[i + j].value)

\* The j-th configured quantile of recorder r, as the recorder holds it.
ConfiguredQuantile(r, j) == Min(Max(config[r][j], 0), F64One)

-----------------------------------------------------------------------------
\* C12: quantile monotonicity.  For the values recorded for a key, the value
\* emitted for a quantile is at most the value emitted for any larger quantile;
\* the quantile 0 line is not above the smallest recorded value and the
\* quantile 1 line is not below the largest recorded value.
C12_QuantileMonotone ==
    \A r \in Ids : IsSome(rendered[r]) =>
        \A k \in HistKeysOf(r) : ValuesFor(r, k) # <<>> =>
            LET n    == Len(config[r])
                vals == Range(ValuesFor(r, k))
            IN  /\ \A a, b \in 1..n :
                      ConfiguredQuantile(r, a) <= ConfiguredQuantile(r, b) =>
                          U64LessEq(EmittedQuantile(r, k, a), EmittedQuantile(r, k, b))
                /\ \A a \in 1..n : ConfiguredQuantile(r, a) = 0 =>
                      \E v \in vals : /\ \A w \in vals : U64LessEq(v, w)
                                      /\ U64LessEq(EmittedQuantile(r, k, a), v)
                /\ \A a \in 1..n : ConfiguredQuantile(r, a) = F64One =>
                      \A v \in vals : U64LessEq(v, EmittedQuantile(r, k, a))

-----------------------------------------------------------------------------
\* C13: the histogram map holds an entry for a key if and only if at least one
\* value has been recorded for the key (a record_histogram call with an empty
\* batch creates none), so no rendered summary block has a _count of 0.
C13_EntryIffObserved ==
    \A r \in Ids :
        /\ (recorders[r].state = "live" /\ ~panicked) =>
              {e.key : e \in recorders[r].histos}
                  = {k \in HistKeysOf(r) : ValuesFor(r, k) # <<>>}
        /\ IsSome(rendered[r]) =>
              LET ps == Parsed(Unwrap(rendered[r]))
              IN  \A i \in 1..Len(ps) :
                      (ps[i].kind = "sample" /\ IsSuffixOf(SCountSuffix, ps[i].name)) =>
                          ps[i].value # <<"0">>

\* How many times c occurs in s.
CountOf(s, c) == Cardinality({i \in 1..Len(s) : s[i] = c})

-----------------------------------------------------------------------------
\* C14: a key is displayed as Key(name) when it has no labels and as
\* Key(name, [k1 = v1, k2 = v2]) when it has labels, the labels in their own
\* order and joined by ", "; either way the text is a closed, balanced Key(...).
C14_DisplayClosed ==
    IsSome(kcall.shown) =>
        LET key   == Unwrap(kcall.key)
            text  == Unwrap(kcall.shown)
            pairs == [i \in 1..Len(OwnLabels(key)) |->
                         OwnLabels(key)[i][1] \o <<" ", "=", " ">> \o OwnLabels(key)[i][2]]
        IN  /\ IsPrefix(<<"K", "e", "y", "(">> \o key.name, text)
            /\ key.labels = None => text = <<"K", "e", "y", "(">> \o key.name \o <<")">>
            /\ key.labels # None =>
                  text = <<"K", "e", "y", "(">> \o key.name \o <<",", " ", "[">>
                            \o Join(pairs, <<",", " ">>) \o <<"]", ")">>
            /\ text[Len(text)] = ")"
            /\ CountOf(text, "(") = CountOf(text, ")")

RECURSIVE ApplyAll(_, _)
\* The name after the functions fs, applied first to last.
ApplyAll(fs, name) ==
    IF fs = <<>> THEN name
    ELSE ApplyNameFn(fs[Len(fs)], ApplyAll(SubSeq(fs, 1, Len(fs) - 1), name))

\* The key as its constructor made it, before any map_name.
Constructed ==
    IF kcall.op = "from_name" THEN [name |-> kcall.name, labels |-> None]
    ELSE [name |-> kcall.name, labels |-> Some(kcall.labels)]

-----------------------------------------------------------------------------
\* C15: map_name(f) gives a key named f(old name) whose labels are those of the
\* key it was given: absent when they were absent, else the same labels in the
\* same order.  Mapping with the identity gives a key equal to the original, and
\* map_name(g) after map_name(f) gives the key of mapping with g after f.
C15_MapName ==
    IsSome(kcall.key) =>
        LET key == Unwrap(kcall.key)
        IN  /\ key.name = ApplyAll(kcall.fns, kcall.name)
            /\ key.labels = Constructed.labels
            /\ (\A i \in 1..Len(kcall.fns) : kcall.fns[i] = "identity") =>
                  KeyEq(key, Constructed)

\* A key with two labels has been mapped twice, by two different functions that
\* change its name.
C15_Witness ==
    /\ kcall.op = "from_name_and_labels" /\ kcall.labels = <<L2, L1>>
    /\ kcall.fns = <<"prefix", "dots">>
    /\ IsSome(kcall.key) /\ Unwrap(kcall.key).name # kcall.name

SummaryWord == <<"s", "u", "m", "m", "a", "r", "y">>

\* The text out rendered after the calls cs is the header line, the blocks of the
\* counter and gauge calls in the order of the calls, and after them one summary
\* block per histogram key and nothing else.
OrderedOutput(out, cs) ==
    LET lines == Lines(out)
        ps    == Parsed(out)
        text  == SelectSeq(cs, IsTextCall)
        hkeys == {cs[i].key : i \in {j \in 1..Len(cs) : cs[j].op = "histogram"}}
        n     == Len(text)
    IN  /\ IsPrefix(SHeaderPrefix, lines[1]) /\ IsSuffixOf(SHeaderSuffix, lines[1])
        /\ SubSeq(lines, 2, 1 + 3 * n) = Flatten([i \in 1..n |-> BlockLines(text[i])])
        /\ \A i \in 1..Len(ps) :
              ps[i].kind = "type" => (ps[i].mtype = SummaryWord <=> i > 1 + 3 * n)
        /\ Cardinality({i \in 1..Len(ps) : ps[i].kind = "type" /\ ps[i].mtype = SummaryWord})
               = Cardinality(hkeys)

-----------------------------------------------------------------------------
\* C16: the rendered text is the header line written at construction, then every
\* counter and gauge block in the order of the calls, then all the summary
\* blocks, wherever the record_histogram calls came among the others; and every
\* step of a recorder leaves the text buffer it had as a prefix of the buffer,
\* or of the rendered text, it has afterwards.
C16_BufferThenSummaries ==
    [][\A r \in Ids :
          /\ IsSome(rendered'[r]) => OrderedOutput(Unwrap(rendered'[r]), calls'[r])
          /\ (recorders[r].state = "live" /\ recorders'[r].state = "live") =>
                IsPrefix(recorders[r].output, recorders'[r].output)
          /\ (recorders[r].state = "live" /\ IsSome(rendered'[r])) =>
                IsPrefix(recorders[r].output, Unwrap(rendered'[r]))]_vars

\* A rendered text after a counter, a histogram and a gauge, in that order.
C16_Witness ==
    /\ IsSome(rendered[1])
    /\ Len(calls[1]) = 3
    /\ calls[1][1].op = "counter" /\ calls[1][2].op = "histogram" /\ calls[1][3].op = "gauge"

-----------------------------------------------------------------------------
\* C17: frame conditions of the recording operations.  record_histogram leaves
\* the text buffer as it is and changes the entry of no key but the one it is
\* called with; record_counter and record_gauge leave the histogram map as it
\* is; none of the three changes the quantiles.
C17_RecordFrames ==
    [][\A r \in Ids :
          (recorders[r].state = "live" /\ calls'[r] # calls[r]) =>
              LET c == calls'[r][Len(calls'[r])]
              IN  /\ recorders'[r].quantiles = recorders[r].quantiles
                  /\ c.op = "histogram" =>
                        /\ recorders'[r].output = recorders[r].output
                        /\ {e \in recorders'[r].histos : e.key # c.key}
                               = {e \in recorders[r].histos : e.key # c.key}
                  /\ c.op \in {"counter", "gauge"} =>
                        recorders'[r].histos = recorders[r].histos]_vars

\* Values have just been recorded for one key on a recorder that holds the
\* entry of another key and a counter or gauge block.
C17_Witness ==
    /\ last.op = "record_histogram" /\ ~panicked
    /\ calls[1][Len(calls[1])].value # <<>>
    /\ \E e \in recorders[1].histos :
          e.key # calls[1][Len(calls[1])].key /\ HistLen(e.h) > 0
    /\ TextCalls(1) # <<>>

\* The indices of the "# TYPE <name> summary" lines among the parsed lines ps.
SummariesIn(ps) == {i \in 1..Len(ps) : ps[i].kind = "type" /\ ps[i].mtype = SummaryWord}

-----------------------------------------------------------------------------
\* C18: no two summary blocks of one rendered text describe the same time
\* series: two histogram entries never render to the same name and label block,
\* so no two "# TYPE <name> summary" blocks have the same name and the same
\* labels on their lines.
C18_DistinctSeries ==
    \A r \in Ids :
        /\ recorders[r].state = "live" =>
              \A d, e \in recorders[r].histos : d # e =>
                  LET pd == key_to_parts(d.key)
                      pe == key_to_parts(e.key)
                  IN  render_labeled_name(pd[1], pd[2]) # render_labeled_name(pe[1], pe[2])
        /\ IsSome(rendered[r]) =>
              LET ps == Parsed(Unwrap(rendered[r]))
              IN  \A i, j \in SummariesIn(ps) : i # j =>
                      \/ ps[i].name # ps[j].name
                      \/ \E l \in 1..(Len(config[r]) + 2) :
                            ps[i + l].labels # ps[j + l].labels

-----------------------------------------------------------------------------
\* C19: rendering is determined by what was recorded.  Two recorders with the
\* same quantiles and the same header line that received the same record_*
\* calls in the same order render to the same text, also when values were
\* recorded for two or more keys.
C19_SameCallsSameText ==
    \A r, s \in Ids :
        (/\ IsSome(rendered[r]) /\ IsSome(rendered[s])
         /\ config[r] = config[s]
         /\ calls[r] = calls[s]
         /\ Head(Lines(Unwrap(rendered[r]))) = Head(Lines(Unwrap(rendered[s]))))
            => rendered[r] = rendered[s]

\* How many of the labels of a parsed sample are quantile labels.
QuantileLabelCount(p) == Cardinality({l \in 1..Len(p.labels) : IsQuantileLabel(p.labels[l])})

-----------------------------------------------------------------------------
\* C20: in every summary block each quantile line carries the key's own labels
\* in their order and after them exactly one quantile label, and the _sum and
\* _count lines carry the key's own labels alone, the bare name when the key
\* has none: no quantile label stays on for a later line.
C20_NoQuantileLeak ==
    \A r \in Ids : IsSome(rendered[r]) =>
        LET ps == Parsed(Unwrap(rendered[r]))
            n  == Len(config[r])
        IN  \A i \in SummariesIn(ps) :
                \E k \in HistKeysOf(r) :
                    /\ ps[i].name = EscapedName(k.name)
                    /\ \A j \in 1..n :
                          /\ ps[i + j].kind = "sample"
                          /\ QuantileLabelCount(ps[i + j]) = 1
                          /\ IsQuantileLabel(ps[i + j].labels[Len(ps[i + j].labels)])
                          /\ KeyLabelsOf(ps[i + j]) = LabelTexts(k)
                    /\ ps[i + n + 1].name = EscapedName(k.name) \o SSumSuffix
                    /\ ps[i + n + 2].name = EscapedName(k.name) \o SCountSuffix
                    /\ \A j \in {n + 1, n + 2} :
                          /\ ps[i + j].kind = "sample"
                          /\ QuantileLabelCount(ps[i + j]) = 0
                          /\ ps[i + j].labels = LabelTexts(k)
                          /\ ps[i + j].braces <=> OwnLabels(k) # <<>>

\* A rendered text with the summary of a key without labels and the summary of
\* a key with two labels, under two quantiles.
C20_Witness ==
    /\ IsSome(rendered[1])
    /\ Len(config[1]) = 2
    /\ \E k, l \in HistKeysOf(1) : k.labels = None /\ OwnLabels(l) = <<L1, L2>>
=============================================================================
